---- MODULE Spec2Model ----
(***************************************************************************)
(* Model of nodeload's progress reporting (lib/reporting/index.js):        *)
(* Chart, Report and ReportGroup (REPORT_MANAGER) with its periodic log    *)
(* writer.  JavaScript values are modelled as follows.                     *)
(*   - null / undefined object references and timer handles: 0 (Null).     *)
(*   - a JS array with holes (a sparse row): a function whose domain is    *)
(*     the set of defined indices, 1-based; a dense array is a sequence.   *)
(*   - a JS object used as a mapping and walked with util.forEach: the     *)
(*     sequence of its <<key, value>> pairs in iteration order, keys       *)
(*     distinct.                                                           *)
(*   - timeFromStart(): the number of hundredths of a minute (the JS       *)
(*     value times 100), an integer.                                       *)
(***************************************************************************)
EXTENDS Integers, Sequences, FiniteSets, TLC

VARIABLES
    \* ---- ReportGroup (REPORT_MANAGER) ----
    logNameOrObject,    \* this.logNameOrObject: the persistence target
    logger,             \* this.logger: Null or the id of the sink held
    loggingTimeoutId,   \* this.loggingTimeoutId: Null or a timer handle
    refreshIntervalMs,  \* this.refreshIntervalMs: "undefined" until configured
    timers,             \* handles of the setTimeout timers still pending
    nextTimer,          \* number of timers created so far (handles 1..nextTimer)
    sinks,              \* every sink object: how it came to be and the calls made on it
    loggingOn,          \* `enabled` of the last setLoggingEnabled call that returned
    \* ---- one Chart and the event emitter it listens to ----
    chart,              \* [name, columns, rows]
    createdAt,          \* the instant (ms since START) the Chart was constructed
    listeners,          \* eventEmitter's 'data' listeners: the `fields` of each
    emitted,            \* number of 'data' events emitted
    \* ---- one Report and its sources ----
    report,             \* [name, summary, charts]
    subscribed,         \* sources whose 'update' event the Report listens to
    updates,            \* number of 'update' events delivered
    \* ---- the ReportGroup's collection of Reports ----
    reports,            \* this.reports: [type, items], an array or (after reset) an object
    \* ---- the callers and the event loop ----
    refs,               \* the references getChart has returned: the name each was asked for
    handler,            \* the monitor group's 'update' listener: what it has left to do
    applied,            \* how many times each sub-source of the group has been applied
    provenance,         \* which statistic wrote each summary key and each chart
    exited,             \* whether an uncaught exception has ended the process
    now,                \* new Date().getTime() - START, in ms
    lastOp,             \* the method or handler that ran last
    lastArg,            \* its argument (<<>> when it takes none)
    threw               \* whether it raised an exception

groupVars  == <<logNameOrObject, logger, loggingTimeoutId, refreshIntervalMs,
                timers, nextTimer, sinks, loggingOn>>
chartVars  == <<chart, createdAt, listeners, emitted>>
reportVars == <<report, subscribed, updates>>
auxVars    == <<refs, handler, applied, provenance, exited>>
vars == <<groupVars, chartVars, reportVars, reports, auxVars, now, lastOp, lastArg, threw>>

Null == 0

\* ---- bounds of the model ----
MaxTimers == 4      \* timers created (enables + firings) in one run
MaxPuts   == 2      \* rows put into the Chart in one run
MaxEvents == 2      \* 'data' events emitted in one run
MaxUpdates == 2     \* 'update' events delivered in one run

\* The instants (ms since START) at which something happens.
Clock == {0, 599, 600, 1200}

(***************************************************************************)
(* timeFromStart                                                           *)
(***************************************************************************)
\* Math.floor((new Date().getTime() - START) / 600) / 100, times 100.
timeFromStart(ms) == ms \div 600

Tick ==
    /\ \E t \in Clock : t > now /\ now' = t
    /\ lastOp' = "tick"
    /\ lastArg' = <<>>
    /\ threw' = FALSE
    /\ UNCHANGED <<groupVars, chartVars, reportVars, reports, auxVars>>

(***************************************************************************)
(* ReportGroup: persistence target, sink and periodic-write timer          *)
(***************************************************************************)
FileTarget(n)   == [type |-> "string", name |-> n, sink |-> Null]
ObjectTarget(s) == [type |-> "object", name |-> "", sink |-> s]
NoTarget        == [type |-> "undefined", name |-> "", sink |-> Null]

\* 'results-' + START.getTime() + '.html'
DefaultLogName == "results-START.html"

\* Sink objects a caller can hand to setLogFile (sinks[1] is one), and the
\* file names it can give.
SuppliedSinks == {1}
Targets == {FileTarget(DefaultLogName), FileTarget("a.html")}
           \cup {ObjectTarget(s) : s \in SuppliedSinks}

\* A sink as the reporting code sees it: clear(text) and close().
SuppliedSink   == [origin |-> "supplied", arg |-> NoTarget, calls |-> <<>>]
NewLogFile(a)  == [origin |-> "LogFile", arg |-> a, calls |-> <<>>]
CallSink(sk, s, method) ==
    [sk EXCEPT ![s].calls = Append(@, method)]

\* NODELOAD_CONFIG.AJAX_REFRESH_INTERVAL_MS, whatever number it is.
AJAX_REFRESH_INTERVAL_MS == "AJAX_REFRESH_INTERVAL_MS"

\* clearTimeout(handle): a handle that is pending is cancelled, any other
\* (undefined, fired, already cancelled) is ignored.
\* (Faulty variant: the pending timer is not cancelled.)
ClearTimeoutNoop(ts, handle) == ts
ClearTimeout(ts, handle) == ts \ {handle}

\* this.logger || (typeof this.logNameOrObject === 'string'): the condition
\* of the conditional expression on line 150 (|| binds tighter than ?:).
OpensLogFile(lg, target) == lg # Null \/ target.type = "string"

\* The else-branch of setLoggingEnabled: close the sink held and drop it.
\* (Faulty variant: the reference is kept after close().)
CloseAndKeep(sk, lg) == [sinks |-> CallSink(sk, lg, "close"), logger |-> lg]
CloseAndDrop(sk, lg) == [sinks |-> CallSink(sk, lg, "close"), logger |-> Null]

\* setLoggingEnabled(enabled), as called by a user or by the 'apply' handler.
SetLoggingEnabledCall(enabled) ==
    LET cleared == ClearTimeout(timers, loggingTimeoutId) IN
    IF enabled
    THEN /\ nextTimer < MaxTimers
         /\ IF OpensLogFile(logger, logNameOrObject)
            THEN \/ \* new LogFile(this.logNameOrObject) returns a sink
                    /\ sinks' = Append(sinks, NewLogFile(logNameOrObject))
                    /\ logger' = Len(sinks) + 1
                    /\ nextTimer' = nextTimer + 1
                    /\ loggingTimeoutId' = nextTimer + 1
                    /\ timers' = cleared \cup {nextTimer + 1}
                    /\ loggingOn' = TRUE
                    /\ threw' = FALSE
                 \/ \* new LogFile(<not a file name>) may raise instead
                    /\ logNameOrObject.type # "string"
                    /\ timers' = cleared
                    /\ threw' = TRUE
                    /\ UNCHANGED <<sinks, logger, nextTimer, loggingTimeoutId, loggingOn>>
            ELSE /\ logger' = logNameOrObject.sink
                 /\ nextTimer' = nextTimer + 1
                 /\ loggingTimeoutId' = nextTimer + 1
                 /\ timers' = cleared \cup {nextTimer + 1}
                 /\ loggingOn' = TRUE
                 /\ threw' = FALSE
                 /\ UNCHANGED sinks
    ELSE /\ timers' = cleared
         /\ IF logger # Null
            THEN /\ sinks' = CloseAndDrop(sinks, logger).sinks
                 /\ logger' = CloseAndDrop(sinks, logger).logger
            ELSE UNCHANGED <<sinks, logger>>
         /\ loggingOn' = FALSE
         /\ threw' = FALSE
         /\ UNCHANGED <<nextTimer, loggingTimeoutId>>

SetLoggingEnabled(enabled) ==
    /\ SetLoggingEnabledCall(enabled)
    /\ lastOp' = "setLoggingEnabled"
    /\ lastArg' = enabled
    /\ UNCHANGED <<logNameOrObject, refreshIntervalMs, chartVars, reportVars, now, reports, auxVars>>

\* setLogFile(logNameOrObject)
\* (Faulty variant: the sink held is dropped when the target changes.)
SetLogFileDropsSink(target) ==
    /\ logNameOrObject' = target
    /\ logger' = Null
    /\ lastOp' = "setLogFile"
    /\ lastArg' = target
    /\ threw' = FALSE
    /\ UNCHANGED <<loggingTimeoutId, refreshIntervalMs, timers, nextTimer,
                   sinks, loggingOn, chartVars, reportVars, now, reports, auxVars>>
SetLogFile(target) ==
    /\ logNameOrObject' = target
    /\ lastOp' = "setLogFile"
    /\ lastArg' = target
    /\ threw' = FALSE
    /\ UNCHANGED <<logger, loggingTimeoutId, refreshIntervalMs, timers, nextTimer,
                   sinks, loggingOn, chartVars, reportVars, now, reports, auxVars>>

\* NODELOAD_CONFIG.on('apply', ...) with LOGS_ENABLED = logsEnabled.
ApplyConfig(logsEnabled) ==
    /\ refreshIntervalMs' = IF refreshIntervalMs # "undefined" THEN refreshIntervalMs
                            ELSE AJAX_REFRESH_INTERVAL_MS
    /\ SetLoggingEnabledCall(logsEnabled)
    /\ lastOp' = "setLoggingEnabled"
    /\ lastArg' = logsEnabled
    /\ UNCHANGED <<logNameOrObject, chartVars, reportVars, now, reports, auxVars>>

\* A pending timer fires and runs writeToLog_.  writeToLog_ has no try/catch,
\* so an exception raised in it leaves the timer callback uncaught: Node then
\* ends the process, unless the program has an 'uncaughtException' listener
\* that lets it go on.
WriteToLog(handle) ==
    /\ handle \in timers
    /\ nextTimer < MaxTimers
    /\ nextTimer' = nextTimer + 1
    /\ loggingTimeoutId' = nextTimer + 1
    /\ timers' = (timers \ {handle}) \cup {nextTimer + 1}
    /\ IF logger # Null
       THEN /\ sinks' = CallSink(sinks, logger, "clear")
            /\ threw' = FALSE
            /\ exited' = exited
       ELSE /\ sinks' = sinks      \* this.logger.clear: TypeError
            /\ threw' = TRUE
            /\ exited' \in BOOLEAN
    /\ lastOp' = "writeToLog_"
    /\ lastArg' = <<>>
    /\ UNCHANGED <<logNameOrObject, logger, refreshIntervalMs, loggingOn,
                   chartVars, reportVars, now, reports,
                   refs, handler, applied, provenance>>

\* this.logger.clear(this.getHtml()): the argument is evaluated before the
\* call, so either of the two can be what raises.
FailingParts == {"getHtml", "clear"}

\* A pending timer fires and runs writeToLog_, and the rendering raises (then
\* clear() is never called) or the sink's clear() raises.
WriteToLogFails(handle, failing) ==
    /\ handle \in timers
    /\ nextTimer < MaxTimers
    /\ logger # Null
    /\ nextTimer' = nextTimer + 1
    /\ loggingTimeoutId' = nextTimer + 1
    /\ timers' = (timers \ {handle}) \cup {nextTimer + 1}
    /\ sinks' = IF failing = "clear" THEN CallSink(sinks, logger, "clear") ELSE sinks
    /\ threw' = TRUE
    /\ exited' \in BOOLEAN
    /\ lastOp' = "writeToLog_"
    /\ lastArg' = <<>>
    /\ UNCHANGED <<logNameOrObject, logger, refreshIntervalMs, loggingOn,
                   chartVars, reportVars, now, reports,
                   refs, handler, applied, provenance>>

GroupInit ==
    /\ logNameOrObject = FileTarget(DefaultLogName)
    /\ logger = Null
    /\ loggingTimeoutId = Null
    /\ refreshIntervalMs = "undefined"
    /\ timers = {}
    /\ nextTimer = 0
    /\ sinks = <<SuppliedSink>>
    /\ loggingOn = FALSE

(***************************************************************************)
(* JS objects used as mappings                                             *)
(***************************************************************************)
EmptyMap == [k \in {} |-> 0]

HasKey(obj, k) == \E i \in DOMAIN obj : obj[i][1] = k
Lookup(obj, k) == obj[CHOOSE i \in DOMAIN obj : obj[i][1] = k][2]
\* obj[k] = v: a new key goes last, an old one keeps its place.
SetKey(obj, k, v) ==
    IF HasKey(obj, k)
    THEN [i \in DOMAIN obj |-> IF obj[i][1] = k THEN <<k, v>> ELSE obj[i]]
    ELSE Append(obj, <<k, v>>)
Keys(obj) == {obj[i][1] : i \in DOMAIN obj}

(***************************************************************************)
(* Chart                                                                   *)
(***************************************************************************)
\* new Chart(name) at elapsed time t.
\* (Faulty variant: the baseline row starts at time 0.)
NewChartAtZero(name, t) == [name |-> name, columns |-> <<"time">>, rows |-> <<<<0>>>>]
NewChart(name, t) == [name |-> name, columns |-> <<"time">>, rows |-> <<<<t>>>>]

\* columns.indexOf(column), 1-based; 0 stands for JS's -1.
IndexOf(columns, column) ==
    IF \E i \in DOMAIN columns : columns[i] = column
    THEN CHOOSE i \in DOMAIN columns :
            columns[i] = column /\ \A j \in 1..(i - 1) : columns[j] # column
    ELSE 0

\* What a new column does to the columns (columns.push(column)).
\* (Faulty variant: unshift instead of push.)
PushColumnFront(columns, column) == <<column>> \o columns
PushColumn(columns, column) == Append(columns, column)

\* What a new column does to rows[0] (rows[0].push(0)).
\* (Faulty variant: the baseline row is not extended.)
PushBaselineNothing(base) == base
PushBaseline(base) == Append(base, 0)

\* row[col] = val on the row being built (a sparse array).
\* (Faulty variant: the slots skipped are filled with 0.)
SetCellFilled(row, col, val) ==
    [i \in 1..col |-> IF i = col THEN val ELSE IF i \in DOMAIN row THEN row[i] ELSE 0]
SetCell(row, col, val) == (col :> val) @@ row

\* One call of the forEach callback of put: st = [columns, base, row].
PutCell(st, column, val) ==
    LET col == IndexOf(st.columns, column) IN
    IF col = 0
    THEN [columns |-> PushColumn(st.columns, column),
          base    |-> PushBaseline(st.base),
          row     |-> SetCell(st.row, Len(st.columns) + 1, val)]
    ELSE [st EXCEPT !.row = SetCell(st.row, col, val)]

RECURSIVE PutCells(_, _)
PutCells(st, data) ==
    IF data = <<>> THEN st
    ELSE PutCells(PutCell(st, data[1][1], data[1][2]), Tail(data))

\* The first row of put: [timeFromStart()].
StartRow(t) == <<t>>

\* rows.push(row)
PushRow(rows, row) == Append(rows, row)

\* chart.put(data) at elapsed time t.
ChartPut(c, data, t) ==
    LET st == PutCells([columns |-> c.columns, base |-> c.rows[1], row |-> StartRow(t)],
                       data)
    IN  [c EXCEPT !.columns = st.columns,
                  !.rows = PushRow([c.rows EXCEPT ![1] = st.base], st.row)]

\* Inputs of put: objects over these keys and values.
Values == {1, 2}
KeySeqs == {<<>>, <<"a">>, <<"b">>, <<"time">>, <<"a", "b">>, <<"b", "a">>,
            <<"time", "a">>, <<"b", "time">>}
Datas == UNION { {[i \in DOMAIN ks |-> <<ks[i], vs[i]>>] : vs \in [DOMAIN ks -> Values]}
                 : ks \in KeySeqs }

Put(data) ==
    /\ Len(chart.rows) <= MaxPuts
    /\ chart' = ChartPut(chart, data, timeFromStart(now))
    /\ lastOp' = "put"
    /\ lastArg' = data
    /\ threw' = FALSE
    /\ UNCHANGED <<createdAt, listeners, emitted, groupVars, reportVars, now, reports, auxVars>>

\* The row object the 'data' listener builds from the event's payload.
RECURSIVE ListenerRow(_, _)
ListenerRow(fields, data) ==
    IF fields = <<>> THEN <<>>
    ELSE LET rest == ListenerRow(SubSeq(fields, 1, Len(fields) - 1), data)
             f == fields[Len(fields)]
         IN  IF HasKey(data, f) THEN SetKey(rest, f, Lookup(data, f)) ELSE rest

\* `this` in the listener function(data) {...}: it is a plain function, so
\* EventEmitter.emit calls it with the emitter as `this`.
ListenerThis == "eventEmitter"

FieldLists == {<<"a">>, <<"a", "b">>}
MaxListeners == 1

\* chart.updateFromEventEmitter(eventEmitter, fields)
UpdateFromEventEmitter(fields) ==
    /\ Len(listeners) < MaxListeners
    /\ listeners' = Append(listeners, fields)
    /\ lastOp' = "updateFromEventEmitter"
    /\ lastArg' = fields
    /\ threw' = FALSE
    /\ UNCHANGED <<chart, createdAt, emitted, groupVars, reportVars, now, reports, auxVars>>

\* eventEmitter.emit('data', data): the listeners run in order; an exception
\* of one ends the emit.
EmitData(data) ==
    /\ listeners # <<>>
    /\ emitted < MaxEvents
    /\ emitted' = emitted + 1
    /\ IF ListenerThis = "chart"
       THEN /\ chart' = ChartPut(chart, ListenerRow(listeners[1], data), timeFromStart(now))
            /\ threw' = FALSE
       ELSE /\ chart' = chart      \* this.put is not a function on the emitter
            /\ threw' = TRUE
    /\ lastOp' = "data"
    /\ lastArg' = data
    /\ UNCHANGED <<createdAt, listeners, groupVars, reportVars, now, reports, auxVars>>

ChartInit ==
    /\ chart = NewChart("chart", timeFromStart(now))
    /\ createdAt = now
    /\ listeners = <<>>
    /\ emitted = 0

(***************************************************************************)
(* Report                                                                  *)
(***************************************************************************)
ReportName == "R"
NewReport(name) == [name |-> name, summary |-> EmptyMap, charts |-> EmptyMap]

\* this.charts is a plain object ({}), so this.charts[name] also finds what
\* every JS object inherits from Object.prototype: for these names the lookup
\* gives a member of Object.prototype, which is truthy and is no Chart.
InheritedNames ==
    {"__defineGetter__", "__defineSetter__", "__lookupGetter__", "__lookupSetter__",
     "__proto__", "constructor", "hasOwnProperty", "isPrototypeOf",
     "propertyIsEnumerable", "toLocaleString", "toString", "valueOf"}
\* !this.charts[name] is false: a Chart is there, or the name is inherited.
Found(rep, name) == name \in DOMAIN rep.charts \/ name \in InheritedNames
\* What this.charts[name] is then: a Chart of the Report, or not a Chart.
IsChart(rep, name) == name \in DOMAIN rep.charts

\* getChart(name) at elapsed time t: the report with the chart in it.
GetChart(rep, name, t) ==
    IF Found(rep, name) THEN rep
    ELSE [rep EXCEPT !.charts = (name :> NewChart(name, t)) @@ @]

\* monitorname = monitorname ? monitorname + ' ' : ''
MonitorPrefix(monitorname) == IF monitorname # "" THEN monitorname \o " " ELSE ""

\* self.name + ' ' + monitorname + statname + ' ' + name
\* (Faulty variant: the monitor's name is left out.)
SummaryKeyNoMonitor(reportname, prefix, statname, name) ==
    reportname \o " " \o statname \o " " \o name
SummaryKey(reportname, prefix, statname, name) ==
    reportname \o " " \o prefix \o statname \o " " \o name

\* self.summary[key] = val
SetSummary(summary, key, val) == (key :> val) @@ summary

\* The inner forEach: every field of stat.summary() is merged.
RECURSIVE MergeSummary(_, _, _, _)
MergeSummary(rep, prefix, statname, fields) ==
    IF fields = <<>> THEN rep
    ELSE MergeSummary(
            [rep EXCEPT !.summary =
                SetSummary(@, SummaryKey(rep.name, prefix, statname, fields[1][1]),
                           fields[1][2])],
            prefix, statname, Tail(fields))

\* monitorname + statname, the name of the chart of a stat
\* (Faulty variant: the monitor's name is left out.)
ChartNameNoPrefix(prefix, statname) == statname
ChartName(prefix, statname) == prefix \o statname

\* A source that has no interval property at all (monitor.interval is
\* undefined) is a record without that field.  monitor.interval[statname]
\* then raises a TypeError, which ends the forEach and the listener.
IntervalAbsent(monitor) == "interval" \notin DOMAIN monitor
Raises(monitor) == IntervalAbsent(monitor) /\ monitor.stats # <<>>
\* The stats the outer forEach gets to: all of them, or the first only.
StatsReached(monitor) ==
    IF Raises(monitor) THEN SubSeq(monitor.stats, 1, 1) ELSE monitor.stats

\* One call of the outer forEach callback, for stat <<statname, summary()>>.
UpdateStat(rep, monitor, prefix, stat, t) ==
    LET merged == MergeSummary(rep, prefix, stat[1], stat[2]) IN
    IF IntervalAbsent(monitor) THEN merged      \* line 68 raises here
    ELSE IF HasKey(monitor.interval, stat[1])
    THEN LET name == ChartName(prefix, stat[1])
             got  == GetChart(merged, name, t)
         IN  [got EXCEPT !.charts[name] =
                    ChartPut(@, Lookup(monitor.interval, stat[1]), t)]
    ELSE merged

RECURSIVE UpdateStats(_, _, _, _, _)
UpdateStats(rep, monitor, prefix, stats, t) ==
    IF stats = <<>> THEN rep
    ELSE UpdateStats(UpdateStat(rep, monitor, prefix, stats[1], t),
                     monitor, prefix, Tail(stats), t)

\* doUpdateFromMonitor_(monitor, monitorname) at elapsed time t.
DoUpdateFromMonitor(rep, monitor, monitorname, t) ==
    UpdateStats(rep, monitor, MonitorPrefix(monitorname), StatsReached(monitor), t)

\* The monitors the listener of a group gets to: all of them, or those up to
\* the first whose update raises.
RECURSIVE MonitorsReached(_)
MonitorsReached(monitors) ==
    IF monitors = <<>> THEN <<>>
    ELSE IF Raises(monitors[1][2]) THEN <<monitors[1]>>
    ELSE <<monitors[1]>> \o MonitorsReached(Tail(monitors))
GroupRaises(monitors) == \E k \in DOMAIN monitors : Raises(monitors[k][2])

\* Which statistic wrote what: every summary key with the <<monitor name,
\* stat name, field name>> written under it, every chart with the <<monitor
\* name, stat name>> put into it.
KeysWritten(monitorname, monitor) ==
    UNION {{<<SummaryKey(ReportName, MonitorPrefix(monitorname),
                         StatsReached(monitor)[i][1], StatsReached(monitor)[i][2][j][1]),
              <<monitorname, StatsReached(monitor)[i][1],
                StatsReached(monitor)[i][2][j][1]>>>> :
                j \in DOMAIN StatsReached(monitor)[i][2]} :
           i \in DOMAIN StatsReached(monitor)}
ChartsWritten(monitorname, monitor) ==
    IF IntervalAbsent(monitor) THEN {}
    ELSE {<<ChartName(MonitorPrefix(monitorname), monitor.stats[i][1]),
            <<monitorname, monitor.stats[i][1]>>>> :
            i \in {i \in DOMAIN monitor.stats : HasKey(monitor.interval, monitor.stats[i][1])}}
Wrote(prov, monitors) ==
    [keys   |-> prov.keys \cup
                UNION {KeysWritten(monitors[k][1], monitors[k][2]) : k \in DOMAIN monitors},
     charts |-> prov.charts \cup
                UNION {ChartsWritten(monitors[k][1], monitors[k][2]) : k \in DOMAIN monitors}]

\* The 'update' listener of updateFromMonitorGroup: every monitor in turn.
RECURSIVE DoUpdateFromMonitors(_, _, _)
DoUpdateFromMonitors(rep, monitors, t) ==
    IF monitors = <<>> THEN rep
    ELSE DoUpdateFromMonitors(
            DoUpdateFromMonitor(rep, monitors[1][2], monitors[1][1], t),
            Tail(monitors), t)

\* Sources.  A monitor exposes stats (name -> stat with summary()) and
\* interval (name -> accumulator with summary()); both are given here by the
\* mapping name -> summary() at the time of the event.
Readings == {1, 2}
SummaryOf(statname, r) ==
    IF statname = "latency" THEN <<<<"mean", r>>, <<"max", r + r>>>>
    ELSE <<<<"mean", r>>>>
IntervalOf(statname, r) == <<<<"mean", r>>>>
StatSeqs == {<<"latency">>, <<"latency", "worker1 latency">>}
IntervalSeqs == {<<>>, <<"latency">>, <<"latency", "worker1 latency">>}
Monitor(names, inames, r) ==
    [stats    |-> [i \in DOMAIN names |-> <<names[i], SummaryOf(names[i], r)>>],
     interval |-> [i \in DOMAIN inames |-> <<inames[i], IntervalOf(inames[i], r)>>]]
Monitors == {Monitor(names, inames, r) :
                names \in StatSeqs, inames \in IntervalSeqs, r \in Readings}
MonitorGroups ==
    {<<<<"worker1", m>>>> : m \in Monitors}
    \cup {<<<<"worker1", m>>, <<"w2", Monitor(<<"latency">>, <<"latency">>, 1)>>>> :
            m \in Monitors}

\* Sources without an interval property.
NoIntervalMonitors ==
    {[stats |-> Monitor(names, <<>>, r).stats] : names \in StatSeqs, r \in Readings}
NoIntervalGroups ==
    {<<<<"worker1", m>>, <<"w2", Monitor(<<"latency">>, <<"latency">>, 1)>>>> :
        m \in NoIntervalMonitors}

\* report.updateFromMonitor(monitor)
UpdateFromMonitor ==
    /\ "monitor" \notin subscribed
    /\ subscribed' = subscribed \cup {"monitor"}
    /\ lastOp' = "updateFromMonitor"
    /\ lastArg' = <<>>
    /\ threw' = FALSE
    /\ UNCHANGED <<report, updates, groupVars, chartVars, now, reports, auxVars>>

\* report.updateFromMonitorGroup(monitorGroup)
UpdateFromMonitorGroup ==
    /\ "monitorGroup" \notin subscribed
    /\ subscribed' = subscribed \cup {"monitorGroup"}
    /\ lastOp' = "updateFromMonitorGroup"
    /\ lastArg' = <<>>
    /\ threw' = FALSE
    /\ UNCHANGED <<report, updates, groupVars, chartVars, now, reports, auxVars>>

\* monitor emits 'update' while its stats and interval are those of m.
MonitorUpdate(m) ==
    /\ "monitor" \in subscribed
    /\ updates < MaxUpdates
    /\ updates' = updates + 1
    /\ report' = DoUpdateFromMonitor(report, m, "", timeFromStart(now))
    /\ provenance' = Wrote(provenance, <<<<"", m>>>>)
    /\ lastOp' = "monitor update"
    /\ lastArg' = m
    /\ threw' = Raises(m)
    /\ UNCHANGED <<subscribed, groupVars, chartVars, now, reports,
                   refs, handler, applied, exited>>

\* monitorGroup emits 'update' while its monitors are those of g.
MonitorGroupUpdate(g) ==
    /\ "monitorGroup" \in subscribed
    /\ updates < MaxUpdates
    /\ updates' = updates + 1
    /\ report' = DoUpdateFromMonitors(report, MonitorsReached(g), timeFromStart(now))
    /\ provenance' = Wrote(provenance, MonitorsReached(g))
    /\ lastOp' = "monitorGroup update"
    /\ lastArg' = g
    /\ threw' = GroupRaises(g)
    /\ UNCHANGED <<subscribed, groupVars, chartVars, now, reports,
                   refs, handler, applied, exited>>

ReportInit ==
    /\ report = NewReport(ReportName)
    /\ subscribed = {}
    /\ updates = 0

(***************************************************************************)
(* Callers of getChart                                                     *)
(***************************************************************************)
\* A reference to a Chart of the Report is kept as the name getChart was
\* asked for (this.charts[name] is the only place the Report keeps the Chart)
\* together with the number of rows the caller has put through it.
MaxRefs == 3        \* getChart calls in one run
ChartNames == {"latency", "worker1 latency", "constructor"}
RowDatas == {<<<<"mean", 1>>>>}

\* var c = report.getChart(name)
GetChartCall(name) ==
    /\ Len(refs) < MaxRefs
    /\ report' = GetChart(report, name, timeFromStart(now))
    /\ refs' = Append(refs, [name |-> name, puts |-> 0])
    /\ lastOp' = "getChart"
    /\ lastArg' = name
    /\ threw' = FALSE
    /\ UNCHANGED <<subscribed, updates, provenance, handler, applied, exited,
                   groupVars, chartVars, reports, now>>

\* c.put(data), c being the i-th reference getChart returned.  What getChart
\* returned for an inherited name is a member of Object.prototype: it has no put.
PutThrough(i, data) ==
    /\ i \in DOMAIN refs
    /\ IF IsChart(report, refs[i].name)
       THEN /\ Len(report.charts[refs[i].name].rows) <= MaxPuts
            /\ report' = [report EXCEPT !.charts[refs[i].name] =
                                ChartPut(@, data, timeFromStart(now))]
            /\ refs' = [refs EXCEPT ![i].puts = @ + 1]
            /\ threw' = FALSE
       ELSE /\ UNCHANGED <<report, refs>>      \* c.put is not a function
            /\ threw' = TRUE
    /\ lastOp' = "getChart put"
    /\ lastArg' = <<i, data>>
    /\ UNCHANGED <<subscribed, updates, provenance, handler, applied, exited,
                   groupVars, chartVars, reports, now>>

(***************************************************************************)
(* ReportGroup: the collection of Reports                                  *)
(***************************************************************************)
\* this.reports is a JS array or, after reset(), the plain object {}.
\* ReportGroup(): this.reports = []
NewReports == [type |-> "array", items |-> <<>>]
\* reset(): this.reports = {}
EmptyObject == [type |-> "object", items |-> <<>>]

MaxReports == 3     \* Reports held at once
\* addReport takes the name of a Report to construct, or a Report.
ReportArgs == {[type |-> "string", name |-> n] : n \in {"a", "b"}}
              \cup {[type |-> "object", name |-> ReportName]}
\* (typeof report === 'string') ? new Report(report) : report
ReportOf(arg) == NewReport(arg.name)

\* this.reports.push(report): a JS array has push, the object {} has not.
HasPush(rs) == rs.type = "array"

AddReport(arg) ==
    /\ Len(reports.items) < MaxReports
    /\ IF HasPush(reports)
       THEN /\ reports' = [reports EXCEPT !.items = Append(@, ReportOf(arg))]
            /\ threw' = FALSE
       ELSE /\ reports' = reports      \* this.reports.push is not a function
            /\ threw' = TRUE
    /\ lastOp' = "addReport"
    /\ lastArg' = arg
    /\ UNCHANGED <<groupVars, chartVars, reportVars, auxVars, now>>

Reset ==
    /\ reports' = EmptyObject
    /\ lastOp' = "reset"
    /\ lastArg' = <<>>
    /\ threw' = FALSE
    /\ UNCHANGED <<groupVars, chartVars, reportVars, auxVars, now>>

\* JSON.stringify(REPORT_MANAGER.reports), each Report shown by its name.
RECURSIVE JoinReports(_)
JoinReports(items) ==
    IF items = <<>> THEN ""
    ELSE IF Len(items) = 1 THEN "{name:" \o items[1].name \o "}"
    ELSE "{name:" \o items[1].name \o "}," \o JoinReports(Tail(items))
StringifyReports(rs) ==
    IF rs.type = "array" THEN "[" \o JoinReports(rs.items) \o "]"
    ELSE "{" \o "}"

\* GET /reports
HttpGetReports ==
    /\ lastOp' = "GET /reports"
    /\ lastArg' = StringifyReports(reports)
    /\ threw' = FALSE
    /\ UNCHANGED <<groupVars, chartVars, reportVars, reports, auxVars, now>>

\* getHtml(): what is handed to the template.  The document the template
\* makes of it is not modelled.
\* The Reports of the collection as they are now: the collection holds the
\* Report objects, and the one named ReportName is the Report of this model.
Live(rs) ==
    [rs EXCEPT !.items =
        [i \in DOMAIN @ |-> IF @[i].name = ReportName THEN report ELSE @[i]]]
GetHtml == [refreshPeriodMs |-> refreshIntervalMs, reports |-> Live(reports)]

\* GET /
HttpGetRoot ==
    /\ lastOp' = "GET /"
    /\ lastArg' = GetHtml
    /\ threw' = FALSE
    /\ UNCHANGED <<groupVars, chartVars, reportVars, reports, auxVars, now>>

(***************************************************************************)
(* The event loop and the monitor group's 'update' listener                *)
(***************************************************************************)
\* Node runs one handler at a time: an event is dispatched only when no
\* handler is on the stack.  The listener of updateFromMonitorGroup is shown
\* one monitor at a time; handler.left is what util.forEach has still to
\* walk and handler.onStack whether the listener has not yet returned.
Idle == ~handler.onStack

\* util.forEach calls its callback for every monitor before it returns, so
\* the listener returns to the event loop only when nothing is left.
ReturnsToEventLoop(left) == left = <<>>

AtomicGroups ==
    {g \in MonitorGroups : Len(g) = 2 /\ Len(g[1][2].stats) = 1}
    \cup NoIntervalGroups

\* monitorGroup emits 'update': the listener starts on the monitors of g.
MonitorGroupEmit(g) ==
    /\ "monitorGroup" \in subscribed
    /\ handler.left = <<>>
    /\ updates < MaxUpdates
    /\ updates' = updates + 1
    /\ handler' = [left |-> g, onStack |-> TRUE]
    /\ lastOp' = "monitorGroup emit"
    /\ lastArg' = g
    /\ threw' = FALSE
    /\ UNCHANGED <<report, subscribed, refs, applied, provenance, exited,
                   groupVars, chartVars, reports, now>>

\* One call of the forEach callback: self.doUpdateFromMonitor_(monitor, monitorname).
\* When it raises, the exception ends the forEach and the listener: the
\* monitors left are not applied.
ApplySubSource ==
    /\ handler.left # <<>>
    /\ report' = DoUpdateFromMonitor(report, handler.left[1][2], handler.left[1][1],
                                      timeFromStart(now))
    /\ applied' = [applied EXCEPT ![handler.left[1][1]] = @ + 1]
    /\ provenance' = Wrote(provenance, <<handler.left[1]>>)
    /\ IF Raises(handler.left[1][2])
       THEN /\ handler' = [left |-> <<>>, onStack |-> FALSE]
            /\ threw' = TRUE
       ELSE /\ handler' = [left |-> Tail(handler.left),
                           onStack |-> ~ReturnsToEventLoop(Tail(handler.left))]
            /\ threw' = FALSE
    /\ lastOp' = "doUpdateFromMonitor_"
    /\ lastArg' = handler.left[1][1]
    /\ UNCHANGED <<subscribed, updates, refs, exited,
                   groupVars, chartVars, reports, now>>

(***************************************************************************)
(* Start of the process                                                    *)
(***************************************************************************)
SubSources == {"worker1", "w2"}
AuxInit ==
    /\ reports = NewReports
    /\ refs = <<>>
    /\ handler = [left |-> <<>>, onStack |-> FALSE]
    /\ applied = [n \in SubSources |-> 0]
    /\ provenance = [keys |-> {}, charts |-> {}]
    /\ exited = FALSE

(***************************************************************************)
(* Specifications                                                          *)
(***************************************************************************)
\* The ReportGroup's logging: calls of its methods and firings of its timer.
StartInit ==
    /\ now = 0 /\ lastOp = "new" /\ lastArg = <<>> /\ threw = FALSE
    /\ GroupInit /\ ChartInit /\ ReportInit /\ AuxInit
LoggingNext ==
    \/ \E enabled \in BOOLEAN : SetLoggingEnabled(enabled)
    \/ \E target \in Targets : SetLogFile(target)
    \/ \E logsEnabled \in BOOLEAN : ApplyConfig(logsEnabled)
    \/ \E handle \in timers : WriteToLog(handle)
SpecLogging == StartInit /\ [][LoggingNext]_vars

\* One Chart, constructed at some moment of the run, and the puts on it.
ChartSpecInit ==
    /\ now \in Clock /\ lastOp = "new" /\ lastArg = <<>> /\ threw = FALSE
    /\ GroupInit /\ ChartInit /\ ReportInit /\ AuxInit
ChartNext ==
    \/ \E data \in Datas : Put(data)
    \/ Tick
SpecChart == ChartSpecInit /\ [][ChartNext]_vars

\* One Chart listening to an event emitter.
EmitterNext ==
    \/ \E fields \in FieldLists : UpdateFromEventEmitter(fields)
    \/ \E data \in Datas : EmitData(data)
    \/ Tick
SpecEmitter == ChartSpecInit /\ [][EmitterNext]_vars

\* One Report listening to a monitor and to a monitor group.
ReportNext ==
    \/ UpdateFromMonitor
    \/ UpdateFromMonitorGroup
    \/ \E m \in Monitors : MonitorUpdate(m)
    \/ \E g \in MonitorGroups : MonitorGroupUpdate(g)
    \/ Tick
SpecReport == StartInit /\ [][ReportNext]_vars

\* One Report whose charts are asked for by name and written through the
\* references handed out.
GetChartNext ==
    \/ \E name \in ChartNames : GetChartCall(name)
    \/ \E i \in 1..MaxRefs, data \in RowDatas : PutThrough(i, data)
    \/ Tick
SpecGetChart == StartInit /\ [][GetChartNext]_vars

\* One Report listening to sources of which some have no interval property.
MalformedNext ==
    \/ UpdateFromMonitor
    \/ UpdateFromMonitorGroup
    \/ \E m \in Monitors : MonitorUpdate(m)
    \/ \E m \in NoIntervalMonitors : MonitorUpdate(m)
    \/ \E g \in NoIntervalGroups : MonitorGroupUpdate(g)
SpecMalformed == StartInit /\ [][MalformedNext]_vars

\* One Report of the ReportGroup listening to a monitor group, with the
\* readers of the ReportGroup: the log timer and the two HTTP routes.
AtomicNext ==
    \/ ApplySubSource
    \/ /\ Idle
       /\ \/ AddReport([type |-> "object", name |-> ReportName])
          \/ UpdateFromMonitorGroup
          \/ \E g \in AtomicGroups : MonitorGroupEmit(g)
          \/ SetLoggingEnabled(TRUE)
          \/ \E handle \in timers : WriteToLog(handle)
          \/ HttpGetRoot
          \/ HttpGetReports
SpecAtomic == StartInit /\ [][AtomicNext]_vars

\* The ReportGroup's logging to sinks whose clear() can fail.  Nothing runs
\* in a process that has ended.
FlushNext ==
    /\ ~exited
    /\ \/ \E enabled \in BOOLEAN : SetLoggingEnabled(enabled)
       \/ \E target \in Targets : SetLogFile(target)
       \/ \E handle \in timers : WriteToLog(handle)
       \/ \E handle \in timers, failing \in FailingParts : WriteToLogFails(handle, failing)
SpecFlush == StartInit /\ [][FlushNext]_vars

\* The ReportGroup's collection: Reports added, the collection reset and
\* exported.
ReportsNext ==
    \/ \E arg \in ReportArgs : AddReport(arg)
    \/ Reset
    \/ HttpGetReports
    \/ HttpGetRoot
SpecReports == StartInit /\ [][ReportsNext]_vars

(***************************************************************************)
(* Properties of the ReportGroup's logging (under SpecLogging)             *)
(***************************************************************************)
Count(calls, method) == Cardinality({i \in DOMAIN calls : calls[i] = method})
Clears(sk, s) == Count(sk[s].calls, "clear")
Closes(sk, s) == Count(sk[s].calls, "close")

\* C1: in every reachable state at most one periodic-write timer of the
\* group is pending; after a setLoggingEnabled(true) that returned and after
\* every firing of writeToLog_ exactly one is pending, the one whose handle
\* the group holds.
C1_AtMostOneTimer ==
    /\ Cardinality(timers) <= 1
    /\ lastOp = "writeToLog_" => timers = {loggingTimeoutId}
    /\ (lastOp = "setLoggingEnabled" /\ lastArg /\ ~threw) => timers = {loggingTimeoutId}

\* C1's case: logging was enabled again while a timer was pending (two log
\* files opened, none closed) and a timer has fired since.
C1_Witness ==
    /\ lastOp = "writeToLog_"
    /\ Len(sinks) >= 3
    /\ \A s \in DOMAIN sinks : Closes(sinks, s) = 0
    /\ timers = {loggingTimeoutId}

\* C2: a setLoggingEnabled(true) that directly follows a setLoggingEnabled(true)
\* which returned constructs no sink and leaves the group's logger the sink
\* it was; no call is made on any sink.
C2_ReenableKeepsSink ==
    [][(/\ lastOp = "setLoggingEnabled" /\ lastArg /\ ~threw
        /\ lastOp' = "setLoggingEnabled" /\ lastArg')
       => (/\ sinks' = sinks
           /\ logger' = logger
           /\ logger' # Null
           /\ ~threw')]_vars

\* C3: a setLoggingEnabled(false) on a group whose logging is enabled calls
\* close() exactly once, on the sink the group holds, and makes no other
\* call on any sink; a setLoggingEnabled(false) on a group whose logging is
\* not enabled makes no call at all; and no step taken while logging is not
\* enabled calls clear() on any sink.
C3_DisableClosesOnce ==
    [][/\ (lastOp' = "setLoggingEnabled" /\ ~lastArg' /\ loggingOn) =>
            /\ logger \in DOMAIN sinks
            /\ DOMAIN sinks' = DOMAIN sinks
            /\ sinks'[logger] = [sinks[logger] EXCEPT !.calls = Append(@, "close")]
            /\ \A s \in DOMAIN sinks : s # logger => sinks'[s] = sinks[s]
       /\ (lastOp' = "setLoggingEnabled" /\ ~lastArg' /\ ~loggingOn) => sinks' = sinks
       /\ ~loggingOn =>
            \A s \in DOMAIN sinks : Clears(sinks', s) = Clears(sinks, s)
      ]_vars

\* C3's case: a sink written to by the timer and then closed by a disable.
C3_Witness ==
    /\ lastOp = "setLoggingEnabled" /\ ~lastArg
    /\ ~loggingOn
    /\ logger = Null
    /\ timers = {}
    /\ \E s \in DOMAIN sinks : sinks[s].calls = <<"clear", "close">>

(***************************************************************************)
(* Properties of Chart (under SpecChart and SpecEmitter)                   *)
(***************************************************************************)
\* The keys of data that are no column yet, in the order put meets them.
NewColumns(columns, data) ==
    LET isNew(pair) == \A i \in DOMAIN columns : columns[i] # pair[1]
        news == SelectSeq(data, isNew)
    IN  [i \in DOMAIN news |-> news[i][1]]
Zeros(n) == [i \in 1..n |-> 0]
\* The slot of column index i in a row: <<v>> when defined, <<>> when undefined
\* (a hole, or past the row's length).
Slot(row, i) == IF i \in DOMAIN row THEN <<row[i]>> ELSE <<>>
LastRow(c) == c.rows[Len(c.rows)]

\* C4: columns.length == rows[0].length after the constructor and after
\* every put.
C4_ColumnsMatchBaseline == Len(chart.columns) = Len(chart.rows[1])

\* C4's case: two puts, each of which discovered a column.
C4_Witness ==
    /\ lastOp = "put"
    /\ Len(chart.rows) = 3
    /\ Len(chart.columns) = 3
    /\ 3 \notin DOMAIN chart.rows[2]

\* C5: the columns before a put are a prefix of the columns after it,
\* columns[0] is "time", and the columns a put adds are the keys of its data
\* that were no column yet, in the order of the data.
C5_ColumnStability ==
    [][/\ Len(chart.columns) <= Len(chart'.columns)
       /\ SubSeq(chart'.columns, 1, Len(chart.columns)) = chart.columns
       /\ chart'.columns[1] = "time"
       /\ lastOp' = "put" =>
            chart'.columns = chart.columns \o NewColumns(chart.columns, lastArg')
      ]_vars

\* C5's case: column b discovered by a put after column a was.
C5_Witness ==
    /\ lastOp = "put"
    /\ chart.columns = <<"time", "a", "b">>
    /\ Keys(lastArg) = {"b"}

\* C6 as claimed: the baseline row holds only zeros, its time slot included.
C6_BaselineAllZero ==
    /\ Len(chart.rows[1]) = Len(chart.columns)
    /\ \A i \in DOMAIN chart.rows[1] : chart.rows[1][i] = 0

\* C6 as amended: the baseline row holds one entry per column; its time slot
\* is the elapsed time (hundredths of a minute, rounded down) at which the
\* Chart was constructed, which is 0 only for a Chart constructed less than
\* 600 ms after the process started, and every other entry is 0.
C6_BaselineZeroButTime ==
    /\ Len(chart.rows[1]) = Len(chart.columns)
    /\ chart.rows[1][1] = createdAt \div 600
    /\ (chart.rows[1][1] = 0 <=> createdAt < 600)
    /\ \A i \in 2..Len(chart.rows[1]) : chart.rows[1][i] = 0

\* C6's case: put({a: 1}) then put({b: 2}) on a Chart constructed after the
\* first 600 ms.
C6_Witness ==
    /\ createdAt >= 600
    /\ chart.columns = <<"time", "a", "b">>
    /\ Len(chart.rows) = 3
    /\ Slot(chart.rows[2], 2) = <<1>>
    /\ Slot(chart.rows[3], 3) = <<2>>
    /\ chart.rows[1] = <<createdAt \div 600, 0, 0>>

\* C7: a put appends exactly one row; in it the slot of each key of data
\* holds the value supplied and the slot of every other column but the time
\* column is undefined; the rows appended before are unchanged and rows[0]
\* only gains one 0 per column the put discovered.
C7_PutAppendsOneRow ==
    [][lastOp' = "put" =>
        LET data == lastArg'
            n    == Len(chart.rows)
            row  == chart'.rows[n + 1]
        IN  /\ Len(chart'.rows) = n + 1
            /\ DOMAIN row \subseteq 1..Len(chart'.columns)
            /\ \A i \in 1..Len(chart'.columns) :
                 IF chart'.columns[i] \in Keys(data)
                 THEN Slot(row, i) = <<Lookup(data, chart'.columns[i])>>
                 ELSE i # 1 => Slot(row, i) = <<>>
            /\ \A j \in 2..n : chart'.rows[j] = chart.rows[j]
            /\ chart'.rows[1] =
                 chart.rows[1] \o Zeros(Len(chart'.columns) - Len(chart.columns))
      ]_vars

\* C7's case: put({b: 2}) after put({a: 1}): the row has a hole at column a;
\* and its first row shows column b past its end.
C7_Witness ==
    /\ lastOp = "put"
    /\ chart.columns = <<"time", "a", "b">>
    /\ Len(chart.rows) = 3
    /\ DOMAIN chart.rows[2] = {1, 2}
    /\ DOMAIN chart.rows[3] = {1, 3}

\* C8: slot 0 of the row a put appends is the elapsed time at the moment of
\* the call, whatever the keys of data.
C8_TimeSlotIsElapsedTime ==
    [][lastOp' = "put" => Slot(LastRow(chart'), 1) = <<now \div 600>>]_vars

\* C9: an event emitted by the source a Chart is subscribed to appends
\* exactly one row to the Chart, holding the listed fields present in the
\* payload and no other.
C9_EventAppendsRow ==
    [][lastOp' = "data" =>
        /\ Len(chart'.rows) = Len(chart.rows) + 1
        /\ {chart'.columns[i] : i \in DOMAIN LastRow(chart') \ {1}}
              = {listeners[1][i] : i \in DOMAIN listeners[1]} \cap Keys(lastArg')
      ]_vars

(***************************************************************************)
(* Properties of Report (under SpecReport)                                 *)
(***************************************************************************)
\* The <<stat, field, value>> triples of the summary() of every stat of m.
FieldsOf(m) ==
    UNION {{<<m.stats[i][1], m.stats[i][2][j][1], m.stats[i][2][j][2]>> :
                j \in DOMAIN m.stats[i][2]} : i \in DOMAIN m.stats}
Holds(summary, key, val) == key \in DOMAIN summary /\ summary[key] = val

\* C10: after an update event the summary holds every field of every stat's
\* summary() under reportName + " " + statName + " " + fieldName for a plain
\* source and under reportName + " " + monitorName + " " + statName + " " +
\* fieldName for a source of a group; the value of the event replaces the one
\* held before, and no key is ever removed.
C10_SummaryKeys ==
    [][/\ lastOp' = "monitor update" =>
            \A f \in FieldsOf(lastArg') :
                Holds(report'.summary, "R" \o " " \o f[1] \o " " \o f[2], f[3])
       /\ lastOp' = "monitorGroup update" =>
            \A k \in DOMAIN lastArg' : \A f \in FieldsOf(lastArg'[k][2]) :
                Holds(report'.summary,
                      "R" \o " " \o lastArg'[k][1] \o " " \o f[1] \o " " \o f[2], f[3])
       /\ DOMAIN report.summary \subseteq DOMAIN report'.summary
       /\ lastOp' \notin {"monitor update", "monitorGroup update"} =>
            report'.summary = report.summary
      ]_vars

\* C10's case: the report has been updated from the plain source and then
\* from the group; the keys of both kinds are in its summary.
C10_Witness ==
    /\ lastOp = "monitorGroup update"
    /\ updates = 2
    /\ Holds(report.summary, "R latency mean", 1)
    /\ Holds(report.summary, "R worker1 latency max", 4)

(***************************************************************************)
(* Properties of getChart (under SpecGetChart)                             *)
(***************************************************************************)
RECURSIVE PutsThrough(_, _)
PutsThrough(rs, name) ==
    IF rs = <<>> THEN 0
    ELSE (IF rs[1].name = name THEN rs[1].puts ELSE 0) + PutsThrough(Tail(rs), name)

\* C11: getChart is idempotent, for every chart name.  After a call the
\* Report has a Chart of that name; a call for a name the Report already has
\* a Chart for creates nothing and leaves the Report (every chart's columns
\* and rows) as it was; a call for a new name adds one fresh Chart of that
\* name and touches no other; a put through any reference returned succeeds
\* and adds one row to the chart of the reference's name (the rows put before
\* stay as they are, the baseline row keeps its time) and to no other, so
\* that the rows of a chart are its baseline row plus every row put through
\* every reference handed out for its name.
C11_GetChartIdempotent ==
    [][/\ lastOp' = "getChart" =>
            /\ lastArg' \in DOMAIN report'.charts
            /\ report'.charts[lastArg'].name = lastArg'
            /\ lastArg' \in DOMAIN report.charts => report' = report
            /\ lastArg' \notin DOMAIN report.charts =>
                    /\ DOMAIN report'.charts = DOMAIN report.charts \cup {lastArg'}
                    /\ report'.charts[lastArg'].columns = <<"time">>
                    /\ Len(report'.charts[lastArg'].rows) = 1
                    /\ \A n \in DOMAIN report.charts :
                            report'.charts[n] = report.charts[n]
       /\ lastOp' = "getChart put" =>
            /\ ~threw'
            /\ DOMAIN report'.charts = DOMAIN report.charts
            /\ \A n \in DOMAIN report.charts :
                    IF n = refs[lastArg'[1]].name
                    THEN /\ Len(report'.charts[n].rows) = Len(report.charts[n].rows) + 1
                         /\ \A k \in 2..Len(report.charts[n].rows) :
                                report'.charts[n].rows[k] = report.charts[n].rows[k]
                         /\ report'.charts[n].rows[1][1] = report.charts[n].rows[1][1]
                    ELSE report'.charts[n] = report.charts[n]
       /\ lastOp' \in {"getChart", "getChart put"} =>
            \A n \in DOMAIN report'.charts :
                /\ report'.charts[n].name = n
                /\ Len(report'.charts[n].rows) = 1 + PutsThrough(refs', n)
      ]_vars

(***************************************************************************)
(* Properties of the collection of Reports (under SpecReports)             *)
(***************************************************************************)
\* C12: reports is the sequence of the Reports added since the last reset,
\* in insertion order: every addReport succeeds and appends the Report it
\* was given (or constructed from the name it was given), reset leaves the
\* empty sequence, nothing else changes the collection, and the JSON export
\* is the array of the Reports held.
C12_ReportsSequence ==
    [][/\ lastOp' = "addReport" =>
            /\ ~threw'
            /\ reports'.type = "array"
            /\ reports'.items = Append(reports.items, NewReport(lastArg'.name))
       /\ lastOp' = "reset" =>
            /\ reports'.type = "array"
            /\ reports'.items = <<>>
       /\ lastOp' = "GET /reports" =>
            /\ reports' = reports
            /\ lastArg' = "[" \o JoinReports(reports.items) \o "]"
       /\ lastOp' \notin {"addReport", "reset"} => reports' = reports
      ]_vars

(***************************************************************************)
(* More properties of the ReportGroup's logging (under SpecLogging)        *)
(***************************************************************************)
ClearAfterClose(calls) ==
    \E i, j \in DOMAIN calls : i < j /\ calls[i] = "close" /\ calls[j] = "clear"

\* C13: clear() is never called on a sink on which close() has been called:
\* the periodic writes after a disable and a new enable go to a sink opened
\* or supplied after the disable, for a file name and a sink object alike.
C13_NoClearAfterClose ==
    \A s \in DOMAIN sinks : ~ClearAfterClose(sinks[s].calls)

\* C14: setLogFile changes the persistence target and nothing else: the
\* pending timer, the sink held, the enabled state and the collection of
\* Reports stay as they were, and no sink is opened, written or closed.
C14_SetLogFileFrame ==
    [][lastOp' = "setLogFile" =>
            /\ logNameOrObject' = lastArg'
            /\ UNCHANGED <<logger, loggingTimeoutId, timers, nextTimer, sinks,
                           loggingOn, refreshIntervalMs, reports>>
      ]_vars
\* setLogFile has named a sink object while logging is enabled to a LogFile.
C14_Witness ==
    /\ lastOp = "setLogFile" /\ lastArg.type = "object"
    /\ loggingOn /\ timers # {} /\ logger # Null
    /\ sinks[logger].origin = "LogFile"

(***************************************************************************)
(* More properties of the Report (under SpecReport)                        *)
(***************************************************************************)
\* The sources applied by an update event, each with the monitor name it is
\* applied under ("" for a plain source).
SourcesOf(op, arg) == IF op = "monitor update" THEN <<<<"", arg>>>> ELSE arg
ChartOf(monitorname, statname) ==
    IF monitorname = "" THEN statname ELSE monitorname \o " " \o statname
\* The stats of the event that have an entry in their source's interval and
\* whose chart is the one named n: <<source, stat>> index pairs.
Hits(ev, n) ==
    {h \in UNION {{<<k, i>> : i \in DOMAIN ev[k][2].stats} : k \in DOMAIN ev} :
        /\ ChartOf(ev[h[1]][1], ev[h[1]][2].stats[h[2]][1]) = n
        /\ \E j \in DOMAIN ev[h[1]][2].interval :
                ev[h[1]][2].interval[j][1] = ev[h[1]][2].stats[h[2]][1]}
IntervalSummary(ev, h) ==
    LET m == ev[h[1]][2]
        j == CHOOSE j \in DOMAIN m.interval : m.interval[j][1] = m.stats[h[2]][1]
    IN  m.interval[j][2]
ColumnOf(c, column) == CHOOSE i \in DOMAIN c.columns : c.columns[i] = column
AllChartNames ==
    {ChartOf(mn, sn) : mn \in {"", "worker1", "w2"}, sn \in {"latency", "worker1 latency"}}

\* C15: on an update event every stat with an entry in its source's interval
\* gets exactly one row, that entry's summary(), appended to the chart named
\* statName (monitorName + " " + statName for a source of a group), which is
\* created if absent; a stat without an entry gets no chart and no row, and
\* the fields of its summary() are merged into the summary all the same.
C15_IntervalRows ==
    [][lastOp' \in {"monitor update", "monitorGroup update"} =>
        LET ev == SourcesOf(lastOp', lastArg') IN
        /\ DOMAIN report'.charts =
                DOMAIN report.charts \cup {n \in AllChartNames : Hits(ev, n) # {}}
        /\ \A n \in DOMAIN report'.charts :
                /\ Len(report'.charts[n].rows) =
                        (IF n \in DOMAIN report.charts
                         THEN Len(report.charts[n].rows) ELSE 1)
                        + Cardinality(Hits(ev, n))
                /\ (Hits(ev, n) = {} /\ n \in DOMAIN report.charts) =>
                        report'.charts[n] = report.charts[n]
                /\ \A h \in Hits(ev, n) :
                        \A f \in DOMAIN IntervalSummary(ev, h) :
                            LET field == IntervalSummary(ev, h)[f] IN
                            /\ \E i \in DOMAIN report'.charts[n].columns :
                                    report'.charts[n].columns[i] = field[1]
                            /\ Slot(LastRow(report'.charts[n]),
                                    ColumnOf(report'.charts[n], field[1]))
                                 = <<field[2]>>
        /\ \A k \in DOMAIN ev : \A f \in FieldsOf(ev[k][2]) :
                Holds(report'.summary,
                      "R" \o " " \o ChartOf(ev[k][1], f[1]) \o " " \o f[2], f[3])
      ]_vars
\* An update of a plain source with two stats, of which only "latency" has
\* an interval entry: its chart has the row, the other stat has no chart but
\* its summary fields are there.
C15_Witness ==
    /\ lastOp = "monitor update"
    /\ Len(lastArg.stats) = 2 /\ Len(lastArg.interval) = 1
    /\ "latency" \in DOMAIN report.charts
    /\ Len(report.charts["latency"].rows) = 2
    /\ "worker1 latency" \notin DOMAIN report.charts
    /\ "R worker1 latency mean" \in DOMAIN report.summary

(***************************************************************************)
(* Properties of the group update and its readers (under SpecAtomic)       *)
(***************************************************************************)
Readers == {"writeToLog_", "GET /", "GET /reports"}

\* C16: an update of a monitor group is atomic for every reader: whenever
\* the log timer fires or an HTTP route reads the ReportGroup, every monitor
\* of the group has been applied for the same number of update events, and
\* no row of a chart is partly filled: every row put has its time and the
\* value of its interval summary.
C16_GroupUpdateAtomic ==
    lastOp \in Readers =>
        /\ \A a, b \in SubSources : applied[a] = applied[b]
        /\ \A n \in DOMAIN report.charts :
                \A k \in 2..Len(report.charts[n].rows) :
                    /\ 1 \in DOMAIN report.charts[n].rows[k]
                    /\ ColumnOf(report.charts[n], "mean") \in DOMAIN report.charts[n].rows[k]

(***************************************************************************)
(* Properties of the periodic write to a failing sink (under SpecFlush)    *)
(***************************************************************************)
\* C17: a failure of clear() (or of the rendering) in one timer-driven flush
\* does not stop the cycle while logging stays enabled: after the failed
\* flush exactly one timer is pending, in a process that is still running,
\* so that the next flush fires.
C17_FailedFlushKeepsCycle ==
    (lastOp = "writeToLog_" /\ threw /\ logger # Null) =>
        /\ timers = {loggingTimeoutId}
        /\ ~exited

(***************************************************************************)
(* Properties of updates from incomplete sources (under SpecMalformed)     *)
(***************************************************************************)
\* C18: an update event of a source whose interval mapping is absent, or
\* lacks a stat that stats has, is never an error: the handler does not
\* raise, and the summary fields of every stat of every source of the event
\* are merged.
C18_MissingFieldNoError ==
    [][lastOp' \in {"monitor update", "monitorGroup update"} =>
        LET ev == SourcesOf(lastOp', lastArg') IN
        /\ ~threw'
        /\ \A k \in DOMAIN ev : \A f \in FieldsOf(ev[k][2]) :
                Holds(report'.summary,
                      "R" \o " " \o ChartOf(ev[k][1], f[1]) \o " " \o f[2], f[3])
      ]_vars

(***************************************************************************)
(* Properties of the naming of keys and charts (under SpecReport)          *)
(***************************************************************************)
NamesIn(t) == {t[i] : i \in DOMAIN t}
\* The names of the model that contain no space.
Spaceless == {"", "worker1", "w2", "latency", "mean", "max"}

\* C20: within one Report the naming is injective: two different <<monitor
\* name, stat name, field name>> never share a summary key, and two
\* different <<monitor name, stat name>> never share a chart, whatever the
\* names (names with spaces too) and for plain sources and groups together.
C20_NamingInjective ==
    /\ \A a, b \in provenance.keys : a[1] = b[1] => a[2] = b[2]
    /\ \A a, b \in provenance.charts : a[1] = b[1] => a[2] = b[2]
\* C20 (amended): the same, for names that contain no space.
C20_InjectiveWithoutSpaces ==
    /\ \A a, b \in provenance.keys :
            (a[1] = b[1] /\ NamesIn(a[2]) \cup NamesIn(b[2]) \subseteq Spaceless)
                => a[2] = b[2]
    /\ \A a, b \in provenance.charts :
            (a[1] = b[1] /\ NamesIn(a[2]) \cup NamesIn(b[2]) \subseteq Spaceless)
                => a[2] = b[2]
\* The stat "latency" has been written by a plain source and by the monitor
\* "worker1" of a group, under two keys and into two charts.
C20_Witness ==
    /\ \E a, b \in provenance.keys :
            /\ a[2] = <<"", "latency", "mean">>
            /\ b[2] = <<"worker1", "latency", "mean">>
            /\ a[1] # b[1]
    /\ \E a, b \in provenance.charts :
            /\ a[2] = <<"", "latency">>
            /\ b[2] = <<"worker1", "latency">>
            /\ a[1] # b[1]

(***************************************************************************)
(* Timer and sink together (under SpecLogging)                             *)
(***************************************************************************)
\* C19: with every persistence target a file name or a sink object, between
\* events a timer is pending exactly when the ReportGroup holds a sink: a
\* timer that fires finds a sink to clear(), and a ReportGroup without a
\* pending timer holds no open sink.
C19_TimerIffSink ==
    logNameOrObject.type \in {"string", "object"} =>
        (timers # {} <=> logger # Null)
====
